---- MODULE Spec2Model ----
(***************************************************************************)
(* A model of the 2D particle simulator (simulator/particle.py and         *)
(* simulator/simulation.py).                                               *)
(*                                                                         *)
(* Numbers.  The program computes with floating point numbers.  The model  *)
(* computes with exact rationals <<n, d>> (d > 0, lowest terms), so every  *)
(* sum, product and quotient is the mathematical one.  The one operation   *)
(* that leaves the rationals is the Euclidean norm of                      *)
(* Simulation._resolve_collision; a step that needs the norm of a vector   *)
(* whose squared length is no square of a rational is outside the model    *)
(* (see Representable).                                                    *)
(***************************************************************************)
EXTENDS Integers, Sequences, FiniteSets, TLC

(***************************************************************************)
(* Exact rational arithmetic.                                              *)
(***************************************************************************)
Abs(n) == IF n < 0 THEN -n ELSE n

RECURSIVE Gcd(_, _)
Gcd(a, b) == IF b = 0 THEN a ELSE Gcd(b, a % b)

\* The rational n/d (d # 0) in lowest terms with a positive denominator.
Rat(n, d) ==
    LET g == Gcd(Abs(n), Abs(d))
        s == IF d < 0 THEN -1 ELSE 1
    IN  <<(s * n) \div g, (s * d) \div g>>

\* Body applied to a value that is computed first, and once (an assignment to
\* a local variable of the source).
Let(value, Body(_)) == CHOOSE r \in {Body(v) : v \in {value}} : TRUE

RInt(n) == <<n, 1>>
Zero == <<0, 1>>
One == <<1, 1>>
Two == <<2, 1>>
Half == <<1, 2>>

\* Sums, products and comparisons cancel common factors before they multiply.
RAdd(a, b) ==
    IF a[2] = b[2] THEN Rat(a[1] + b[1], a[2])
    ELSE LET g == Gcd(a[2], b[2])
         IN  Rat(a[1] * (b[2] \div g) + b[1] * (a[2] \div g), (a[2] \div g) * b[2])
RNeg(a) == <<-a[1], a[2]>>
RSub(a, b) == RAdd(a, RNeg(b))
RMul(a, b) ==
    IF a[2] = 1 /\ b[2] = 1 THEN <<a[1] * b[1], 1>>
    ELSE LET g1 == Gcd(Abs(a[1]), b[2])
             g2 == Gcd(Abs(b[1]), a[2])
         IN  Rat((a[1] \div g1) * (b[1] \div g2), (a[2] \div g2) * (b[2] \div g1))
\* a / b for b # 0
RDiv(a, b) == RMul(a, IF b[1] < 0 THEN <<-b[2], -b[1]>> ELSE <<b[2], b[1]>>)
RLt(a, b) ==
    IF a[2] = b[2] THEN a[1] < b[1]
    ELSE LET g == Gcd(a[2], b[2])
         IN  a[1] * (b[2] \div g) < b[1] * (a[2] \div g)
RLe(a, b) == ~RLt(b, a)
RGt(a, b) == RLt(b, a)
RAbs(a) == <<Abs(a[1]), a[2]>>
IsZero(a) == a[1] = 0

\* int(x) of Python: truncation toward zero.
Trunc(a) == IF a[1] >= 0 THEN a[1] \div a[2] ELSE -((-a[1]) \div a[2])
\* The mathematical floor.
Floor(a) == a[1] \div a[2]

\* Integer square root by bisection: the largest k with k * k <= n.
RECURSIVE ISqrtIn(_, _, _)
ISqrtIn(n, lo, hi) ==
    IF lo = hi THEN lo
    ELSE LET mid == (lo + hi + 1) \div 2
         IN  IF mid * mid <= n THEN ISqrtIn(n, mid, hi) ELSE ISqrtIn(n, lo, mid - 1)

\* 46340 is the largest k whose square is a 32-bit integer.
ISqrt(n) == ISqrtIn(n, 0, IF n < 46340 THEN n ELSE 46340)
IsSquare(a) == /\ a[1] >= 0
               /\ ISqrt(a[1]) * ISqrt(a[1]) = a[1]
               /\ ISqrt(a[2]) * ISqrt(a[2]) = a[2]
\* The square root of a rational that is a square (IsSquare).
RSqrt(a) == <<ISqrt(a[1]), ISqrt(a[2])>>

(***************************************************************************)
(* 2D vectors of rationals (numpy arrays of shape (2,)).                   *)
(***************************************************************************)
Vec(x, y) == <<x, y>>
VZero == <<Zero, Zero>>
VAdd(u, v) == <<RAdd(u[1], v[1]), RAdd(u[2], v[2])>>
VSub(u, v) == <<RSub(u[1], v[1]), RSub(u[2], v[2])>>
VScale(c, v) == <<RMul(c, v[1]), RMul(c, v[2])>>
Dot(u, v) == RAdd(RMul(u[1], v[1]), RMul(u[2], v[2]))
NormSq(v) == Dot(v, v)
\* np.linalg.norm on a vector whose squared length is a square.
Norm(v) == RSqrt(NormSq(v))

(***************************************************************************)
(* Particle (simulator/particle.py).  A particle is a record; mass and     *)
(* radius never change after construction.                                 *)
(***************************************************************************)
\* Explicit Euler: the position moves with the old velocity.
UpdateExplicit(p, dt, acceleration) ==
    [p EXCEPT !.velocity = VAdd(p.velocity, VScale(dt, acceleration)),
              !.position = VAdd(p.position, VScale(dt, p.velocity))]

\* Particle.update: velocity first, then position with the new velocity.
Update(p, dt, acceleration) ==
    LET velocity == VAdd(p.velocity, VScale(dt, acceleration))
    IN  [p EXCEPT !.velocity = velocity,
                  !.position = VAdd(p.position, VScale(dt, velocity))]

KineticEnergy(p) == RMul(RMul(Half, p.mass), Dot(p.velocity, p.velocity))

Momentum(p) == VScale(p.mass, p.velocity)

\* The square of Particle.distance_to.
DistanceSq(p, other) == NormSq(VSub(p.position, other.position))

\* A test that counts touching discs as colliding.
CollidesOrTouches(p, other) ==
    LET sum == RAdd(p.radius, other.radius)
    IN  RLe(DistanceSq(p, other), RMul(sum, sum))

\* Particle.collides_with: distance < r1 + r2.  Both sides are >= 0, so the
\* comparison is made on the squares.
CollidesWith(p, other) ==
    LET sum == RAdd(p.radius, other.radius)
    IN  RLt(DistanceSq(p, other), RMul(sum, sum))

(***************************************************************************)
(* Simulation (simulator/simulation.py).                                   *)
(*   particles  self._particles, a list of references into heap            *)
(*   time       self._time                                                 *)
(*   gravity    self._gravity                                              *)
(*   bounds     self._bounds, None or <<width, height>>                    *)
(*   heap       the Particle objects the host constructed, by identity     *)
(*   last       the last call: its name, arguments, the exception it       *)
(*              raised ("none" if it returned) and what it returned        *)
(*   fuel       how many more calls of step the model follows              *)
(***************************************************************************)
VARIABLES particles, time, gravity, bounds, heap, last, fuel

vars == <<particles, time, gravity, bounds, heap, last, fuel>>

None == <<>>

\* The first loop of Simulation.step: particle.update for every entry.
RECURSIVE UpdateAll(_, _, _, _, _)
UpdateAll(h, seq, i, dt, g) ==
    IF i > Len(seq) THEN h
    ELSE Let([h EXCEPT ![seq[i]] = Update(h[seq[i]], dt, g)], LAMBDA h1 :
             UpdateAll(h1, seq, i + 1, dt, g))

\* A boundary pass that corrects the y axis only when the x axis was in place.
ReflectOneAxis(p, width, height) ==
    LET radius == p.radius
        x0 == p.position[1]
        y0 == p.position[2]
        vx0 == p.velocity[1]
        vy0 == p.velocity[2]
        left == RLt(RSub(x0, radius), Zero)
        right == ~left /\ RGt(RAdd(x0, radius), width)
        bottom == ~left /\ ~right /\ RLt(RSub(y0, radius), Zero)
        top == ~left /\ ~right /\ ~bottom /\ RGt(RAdd(y0, radius), height)
    IN  [p EXCEPT !.position = <<IF left THEN radius
                                 ELSE IF right THEN RSub(width, radius) ELSE x0,
                                 IF bottom THEN radius
                                 ELSE IF top THEN RSub(height, radius) ELSE y0>>,
                  !.velocity = <<IF left THEN RAbs(vx0)
                                 ELSE IF right THEN RNeg(RAbs(vx0)) ELSE vx0,
                                 IF bottom THEN RAbs(vy0)
                                 ELSE IF top THEN RNeg(RAbs(vy0)) ELSE vy0>>]

\* A boundary pass that turns the velocity at a penetrated wall and leaves
\* the position where the update put it.
ReflectNoClamp(p, width, height) ==
    LET radius == p.radius
        x0 == p.position[1]
        y0 == p.position[2]
        vx0 == p.velocity[1]
        vy0 == p.velocity[2]
        left == RLt(RSub(x0, radius), Zero)
        vx1 == IF left THEN RAbs(vx0) ELSE vx0
        right == RGt(RAdd(x0, radius), width)
        vx2 == IF right THEN RNeg(RAbs(vx1)) ELSE vx1
        bottom == RLt(RSub(y0, radius), Zero)
        vy1 == IF bottom THEN RAbs(vy0) ELSE vy0
        top == RGt(RAdd(y0, radius), height)
        vy2 == IF top THEN RNeg(RAbs(vy1)) ELSE vy1
    IN  [p EXCEPT !.velocity = <<vx2, vy2>>]

\* The body of the loop of Simulation._handle_boundary_collisions.
ReflectAtBounds(p, width, height) ==
    LET radius == p.radius
        x0 == p.position[1]
        y0 == p.position[2]
        vx0 == p.velocity[1]
        vy0 == p.velocity[2]
        left == RLt(RSub(x0, radius), Zero)
        x1 == IF left THEN radius ELSE x0
        vx1 == IF left THEN RAbs(vx0) ELSE vx0
        right == RGt(RAdd(x1, radius), width)
        x2 == IF right THEN RSub(width, radius) ELSE x1
        vx2 == IF right THEN RNeg(RAbs(vx1)) ELSE vx1
        bottom == RLt(RSub(y0, radius), Zero)
        y1 == IF bottom THEN radius ELSE y0
        vy1 == IF bottom THEN RAbs(vy0) ELSE vy0
        top == RGt(RAdd(y1, radius), height)
        y2 == IF top THEN RSub(height, radius) ELSE y1
        vy2 == IF top THEN RNeg(RAbs(vy1)) ELSE vy1
    IN  [p EXCEPT !.position = <<x2, y2>>, !.velocity = <<vx2, vy2>>]

RECURSIVE BoundaryLoop(_, _, _, _)
BoundaryLoop(h, seq, i, b) ==
    IF i > Len(seq) THEN h
    ELSE Let([h EXCEPT ![seq[i]] = ReflectAtBounds(h[seq[i]], b[1], b[2])], LAMBDA h1 :
             BoundaryLoop(h1, seq, i + 1, b))

HandleBoundaryCollisions(h, seq, b) ==
    IF b = None THEN h ELSE BoundaryLoop(h, seq, 1, b)

\* 0.01, the separation added in Simulation._resolve_collision.
Slop == <<1, 100>>

\* A resolution that divides the impulse by the first mass for both particles.
ResolveWrongMass(h, a, b) ==
    Let(VSub(h[a].position, h[b].position), LAMBDA diff :
    Let(Norm(diff), LAMBDA distance :
        IF IsZero(distance) THEN h
        ELSE
    Let(VScale(RDiv(One, distance), diff), LAMBDA normal :
    Let(Dot(VSub(h[a].velocity, h[b].velocity), normal), LAMBDA vel_along_normal :
        IF RGt(vel_along_normal, Zero) THEN h
        ELSE
    Let(RDiv(RMul(RInt(-2), vel_along_normal),
             RAdd(RDiv(One, h[a].mass), RDiv(One, h[b].mass))), LAMBDA impulse :
    Let([h EXCEPT ![a].velocity = VAdd(h[a].velocity,
                                       VScale(RDiv(impulse, h[a].mass), normal))],
        LAMBDA h1 :
    Let([h1 EXCEPT ![b].velocity = VSub(h[b].velocity,
                                        VScale(RDiv(impulse, h[a].mass), normal))],
        LAMBDA h2 :
    Let(RSub(RAdd(h[a].radius, h[b].radius), distance), LAMBDA overlap :
        IF RGt(overlap, Zero)
        THEN Let(VScale(RAdd(RMul(overlap, Half), Slop), normal), LAMBDA separation :
             Let([h2 EXCEPT ![a].position = VAdd(h[a].position, separation)],
                 LAMBDA h3 :
                 [h3 EXCEPT ![b].position = VSub(h[b].position, separation)]))
        ELSE h2))))))))

\* A resolution with restitution 0: the impulse only cancels the approach.
ResolveInelastic(h, a, b) ==
    Let(VSub(h[a].position, h[b].position), LAMBDA diff :
    Let(Norm(diff), LAMBDA distance :
        IF IsZero(distance) THEN h
        ELSE
    Let(VScale(RDiv(One, distance), diff), LAMBDA normal :
    Let(Dot(VSub(h[a].velocity, h[b].velocity), normal), LAMBDA vel_along_normal :
        IF RGt(vel_along_normal, Zero) THEN h
        ELSE
    Let(RDiv(RMul(RInt(-1), vel_along_normal),
             RAdd(RDiv(One, h[a].mass), RDiv(One, h[b].mass))), LAMBDA impulse :
    Let([h EXCEPT ![a].velocity = VAdd(h[a].velocity,
                                       VScale(RDiv(impulse, h[a].mass), normal))],
        LAMBDA h1 :
    Let([h1 EXCEPT ![b].velocity = VSub(h[b].velocity,
                                        VScale(RDiv(impulse, h[b].mass), normal))],
        LAMBDA h2 :
    Let(RSub(RAdd(h[a].radius, h[b].radius), distance), LAMBDA overlap :
        IF RGt(overlap, Zero)
        THEN Let(VScale(RAdd(RMul(overlap, Half), Slop), normal), LAMBDA separation :
             Let([h2 EXCEPT ![a].position = VAdd(h[a].position, separation)],
                 LAMBDA h3 :
                 [h3 EXCEPT ![b].position = VSub(h[b].position, separation)]))
        ELSE h2))))))))

\* A resolution that separates an overlapping pair before it tests whether
\* the pair is already separating.
ResolveSeparatesFirst(h, a, b) ==
    Let(VSub(h[a].position, h[b].position), LAMBDA diff :
    Let(Norm(diff), LAMBDA distance :
        IF IsZero(distance) THEN h
        ELSE
    Let(VScale(RDiv(One, distance), diff), LAMBDA normal :
    Let(RSub(RAdd(h[a].radius, h[b].radius), distance), LAMBDA overlap :
    Let(VScale(RAdd(RMul(overlap, Half), Slop), normal), LAMBDA separation :
    Let(IF RGt(overlap, Zero)
        THEN [h EXCEPT ![a].position = VAdd(h[a].position, separation),
                       ![b].position = VSub(h[b].position, separation)]
        ELSE h, LAMBDA h0 :
    Let(Dot(VSub(h[a].velocity, h[b].velocity), normal), LAMBDA vel_along_normal :
        IF RGt(vel_along_normal, Zero) THEN h0
        ELSE
    Let(RDiv(RMul(RInt(-2), vel_along_normal),
             RAdd(RDiv(One, h[a].mass), RDiv(One, h[b].mass))), LAMBDA impulse :
    Let([h0 EXCEPT ![a].velocity = VAdd(h[a].velocity,
                                        VScale(RDiv(impulse, h[a].mass), normal))],
        LAMBDA h1 :
        [h1 EXCEPT ![b].velocity = VSub(h[b].velocity,
                                        VScale(RDiv(impulse, h[b].mass), normal))])))))))))

\* A resolution that pushes the pair apart by the overlap alone.
ResolveWithoutSlop(h, a, b) ==
    Let(VSub(h[a].position, h[b].position), LAMBDA diff :
    Let(Norm(diff), LAMBDA distance :
        IF IsZero(distance) THEN h
        ELSE
    Let(VScale(RDiv(One, distance), diff), LAMBDA normal :
    Let(Dot(VSub(h[a].velocity, h[b].velocity), normal), LAMBDA vel_along_normal :
        IF RGt(vel_along_normal, Zero) THEN h
        ELSE
    Let(RDiv(RMul(RInt(-2), vel_along_normal),
             RAdd(RDiv(One, h[a].mass), RDiv(One, h[b].mass))), LAMBDA impulse :
    Let([h EXCEPT ![a].velocity = VAdd(h[a].velocity,
                                       VScale(RDiv(impulse, h[a].mass), normal))],
        LAMBDA h1 :
    Let([h1 EXCEPT ![b].velocity = VSub(h[b].velocity,
                                        VScale(RDiv(impulse, h[b].mass), normal))],
        LAMBDA h2 :
    Let(RSub(RAdd(h[a].radius, h[b].radius), distance), LAMBDA overlap :
        IF RGt(overlap, Zero)
        THEN Let(VScale(RMul(overlap, Half), normal), LAMBDA separation :
             Let([h2 EXCEPT ![a].position = VAdd(h[a].position, separation)],
                 LAMBDA h3 :
                 [h3 EXCEPT ![b].position = VSub(h[b].position, separation)]))
        ELSE h2))))))))

\* Simulation._resolve_collision on the particles a and b of heap h (a = b
\* when the list holds the same particle twice).
ResolveCollision(h, a, b) ==
    Let(VSub(h[a].position, h[b].position), LAMBDA diff :
    Let(Norm(diff), LAMBDA distance :
        IF IsZero(distance) THEN h
        ELSE
    Let(VScale(RDiv(One, distance), diff), LAMBDA normal :
    Let(Dot(VSub(h[a].velocity, h[b].velocity), normal), LAMBDA vel_along_normal :
        IF RGt(vel_along_normal, Zero) THEN h
        ELSE
    Let(RDiv(RMul(RInt(-2), vel_along_normal),
             RAdd(RDiv(One, h[a].mass), RDiv(One, h[b].mass))), LAMBDA impulse :
    Let([h EXCEPT ![a].velocity = VAdd(h[a].velocity,
                                       VScale(RDiv(impulse, h[a].mass), normal))],
        LAMBDA h1 :
    Let([h1 EXCEPT ![b].velocity = VSub(h[b].velocity,
                                        VScale(RDiv(impulse, h[b].mass), normal))],
        LAMBDA h2 :
    Let(RSub(RAdd(h[a].radius, h[b].radius), distance), LAMBDA overlap :
        IF RGt(overlap, Zero)
        THEN Let(VScale(RAdd(RMul(overlap, Half), Slop), normal), LAMBDA separation :
             Let([h2 EXCEPT ![a].position = VAdd(h[a].position, separation)],
                 LAMBDA h3 :
                 [h3 EXCEPT ![b].position = VSub(h[b].position, separation)]))
        ELSE h2))))))))

\* The norm of _resolve_collision is a rational for this pair.
Representable(h, a, b) == IsSquare(DistanceSq(h[a], h[b]))

\* The body of the loops of Simulation._handle_particle_collisions.  st.heap
\* is the heap, st.exact turns FALSE when a colliding pair is met whose
\* centre distance is no rational.
ExaminePair(st, a, b) ==
    IF ~CollidesWith(st.heap[a], st.heap[b]) THEN st
    ELSE IF ~Representable(st.heap, a, b) THEN [st EXCEPT !.exact = FALSE]
    ELSE [st EXCEPT !.heap = ResolveCollision(st.heap, a, b)]

\* A pass that examines the pairs in descending order.
RECURSIVE PairLoopDescending(_, _, _, _)
PairLoopDescending(st, seq, i, j) ==
    IF i > Len(seq) THEN st
    ELSE IF j > Len(seq) THEN PairLoopDescending(st, seq, i + 1, i + 2)
    ELSE Let(PairLoopDescending(st, seq, i, j + 1), LAMBDA st1 :
             ExaminePair(st1, seq[i], seq[j]))

RECURSIVE PairLoop(_, _, _, _)
PairLoop(st, seq, i, j) ==
    IF i > Len(seq) THEN st
    ELSE IF j > Len(seq) THEN PairLoop(st, seq, i + 1, i + 2)
    ELSE Let(ExaminePair(st, seq[i], seq[j]), LAMBDA st1 :
             PairLoop(st1, seq, i, j + 1))

HandleParticleCollisions(h, seq) == PairLoop([heap |-> h, exact |-> TRUE], seq, 1, 2)

\* The three phases of a Simulation.step whose dt is positive: the heap after
\* the updates, after the boundary pass and after the collision pass.
StepPhases(h, seq, dt, g, b) ==
    Let(UpdateAll(h, seq, 1, dt, g), LAMBDA updated :
    Let(HandleBoundaryCollisions(updated, seq, b), LAMBDA bounded :
    Let(HandleParticleCollisions(bounded, seq), LAMBDA collided :
        [updated |-> updated, bounded |-> bounded,
         heap |-> collided.heap, exact |-> collided.exact])))

\* Simulation.total_kinetic_energy and Simulation.total_momentum: sums over
\* the entries of the list.
RECURSIVE SumEnergy(_, _, _, _)
SumEnergy(h, seq, i, acc) ==
    IF i > Len(seq) THEN acc
    ELSE Let(RAdd(acc, KineticEnergy(h[seq[i]])), LAMBDA acc1 :
             SumEnergy(h, seq, i + 1, acc1))

RECURSIVE SumMomentum(_, _, _, _)
SumMomentum(h, seq, i, acc) ==
    IF i > Len(seq) THEN acc
    ELSE Let(VAdd(acc, Momentum(h[seq[i]])), LAMBDA acc1 :
             SumMomentum(h, seq, i + 1, acc1))

TotalKineticEnergy == SumEnergy(heap, particles, 1, Zero)
TotalMomentum == SumMomentum(heap, particles, 1, VZero)

(***************************************************************************)
(* Bounds of the model and the values the calls are made with.             *)
(***************************************************************************)
MaxParticles == 3       \* the longest list AddParticle builds
ApiSteps == 1           \* calls of step followed under Spec
MaxSteps == 2           \* calls of step followed under Physics
CrowdSteps == 1         \* calls of step followed under Crowd

Ids == {1, 2}
DtValues == {RInt(-1), Zero, Half, One}
\* <<duration, dt>>
RunArgs == { <<Two, One>>, <<<<3, 2>>, One>>, <<Zero, One>>, <<<<-3, 2>>, One>>,
             <<Two, RInt(-1)>>, <<RInt(-1), RInt(-1)>>, <<Two, Zero>> }

\* Particle.__init__ with a positive mass and radius.
Particle(position, velocity, mass, radius) ==
    [position |-> position, velocity |-> velocity, mass |-> mass, radius |-> radius]

V(x, y) == <<RInt(x), RInt(y)>>

\* Two discs in free space: apart, touching, overlapping (head on, oblique,
\* separating) and coincident after the update.
FreeFirst ==
    { Particle(V(0, 0), v, m, One) : v \in {V(0, 0), V(1, 0)}, m \in {One, RInt(3)} }
FreeSecond ==
    { Particle(pos, v, m, One) :
        pos \in {V(0, 0), V(1, 0), V(2, 0), V(3, 0), <<<<8, 5>>, <<4, 5>>>>},
        v \in {V(0, 0), V(-1, 0), V(1, 0)},
        m \in {One, RInt(3)} }

\* Discs at the walls of a box: driven into a wall or a corner, placed outside
\* at rest or moving inward, and wider than the box.
BoundsValues == {V(4, 4), V(3, 4)}
BoxFirst ==
    { Particle(pos, v, One, One) :
        pos \in {V(1, 1), V(0, 0)}, v \in {V(0, 0), V(-1, -1), V(1, -1)} }
BoxSecond ==
    { Particle(pos, v, One, r) :
        pos \in {V(3, 3), V(2, 1)}, v \in {V(0, 0), V(1, 1)}, r \in {One, Two} }

\* Discs falling under gravity.
GravityValue == V(0, -10)
FallFirst == { Particle(V(0, 100), v, One, One) : v \in {V(0, 0), V(1, 5)} }
FallSecond == { Particle(V(0, 100), V(0, 0), One, One), Particle(V(5, 1), V(0, 0), Two, One) }

World(g, bd, a, b, seq) == [gravity |-> g, bounds |-> bd, heap |-> <<a, b>>, list |-> seq]

\* The simulations of Physics: a world and the list its particles were added in.
Worlds ==
       { World(VZero, None, a, b, seq) :
            a \in FreeFirst, b \in FreeSecond, seq \in {<<1, 2>>, <<2, 1>>} }
  \cup { World(VZero, None, Particle(V(0, 0), V(0, 0), One, One), b, <<2, 2>>) :
            b \in FreeSecond }
  \cup { World(VZero, bd, a, b, <<1, 2>>) :
            bd \in BoundsValues, a \in BoxFirst, b \in BoxSecond }
  \cup { World(GravityValue, bd, a, b, seq) :
            bd \in {None, V(4, 4)}, a \in FallFirst, b \in FallSecond,
            seq \in {<<1>>, <<1, 2>>, <<1, 1>>} }

\* What a call leaves in last.
Returned(op, args, result) ==
    [op |-> op, args |-> args, raised |-> "none", result |-> result]
Raised(op, args, error) == [op |-> op, args |-> args, raised |-> error]

\* The worlds followed through every order of calls.
ApiWorlds ==
    { World(VZero, V(4, 4), Particle(V(1, 1), V(1, 0), One, One),
            Particle(V(2, 1), V(-1, 0), RInt(3), One), <<>>),
      World(GravityValue, None, Particle(V(0, 0), V(0, 0), One, One),
            Particle(V(0, 0), V(0, 0), One, One), <<>>) }

\* The arguments step and run are called with under Spec.
ApiDtValues == {RInt(-1), Zero, One}
ApiRunArgs == { <<One, One>>, <<RInt(-1), One>>, <<Two, RInt(-1)>>, <<Two, Zero>> }

Start(w, n) ==
    /\ particles = w.list
    /\ time = Zero
    /\ gravity = w.gravity
    /\ bounds = w.bounds
    /\ heap = w.heap
    /\ last = [op |-> "init", raised |-> "none"]
    /\ fuel = n

\* Simulation.__init__, with the particles the host has constructed.
Init == \E w \in ApiWorlds : Start(w, ApiSteps)

\* A simulation after its particles have been added.
PhysicsInit == \E w \in Worlds : Start(w, MaxSteps)

\* Simulation.add_particle
AddParticle(p) ==
    /\ Len(particles) < MaxParticles
    /\ particles' = Append(particles, p)
    /\ last' = Returned("add_particle", p, None)
    /\ UNCHANGED <<time, gravity, bounds, heap, fuel>>

\* A removal that compares particles by value.
RECURSIVE ListRemoveByValue(_, _)
ListRemoveByValue(seq, p) ==
    IF seq = <<>> THEN <<>>
    ELSE IF heap[Head(seq)] = heap[p] THEN Tail(seq)
    ELSE <<Head(seq)>> \o ListRemoveByValue(Tail(seq), p)

\* list.remove: the list without its first entry equal to p.  Particle
\* defines no __eq__, so two entries are equal when they are the same object.
RECURSIVE ListRemove(_, _)
ListRemove(seq, p) ==
    IF seq = <<>> THEN <<>>
    ELSE IF Head(seq) = p THEN Tail(seq)
    ELSE <<Head(seq)>> \o ListRemove(Tail(seq), p)

Contains(seq, p) == \E i \in 1..Len(seq) : seq[i] = p

\* Simulation.remove_particle
RemoveParticle(p) ==
    /\ particles' = IF Contains(particles, p) THEN ListRemove(particles, p) ELSE particles
    /\ last' = Returned("remove_particle", p, Contains(particles, p))
    /\ UNCHANGED <<time, gravity, bounds, heap, fuel>>

\* A clear that forgets to reset the clock.
ClearKeepsTime ==
    /\ particles' = <<>>
    /\ last' = Returned("clear", None, None)
    /\ UNCHANGED <<time, gravity, bounds, heap, fuel>>

\* Simulation.clear
Clear ==
    /\ particles' = <<>>
    /\ time' = Zero
    /\ last' = Returned("clear", None, None)
    /\ UNCHANGED <<gravity, bounds, heap, fuel>>

\* A step whose validation lets dt = 0 through.
StepCallAcceptsZero(h, t, seq, dt, g, b) ==
    IF RLt(dt, Zero)
    THEN [heap |-> h, time |-> t, raised |-> "ValueError", exact |-> TRUE]
    ELSE Let(StepPhases(h, seq, dt, g, b), LAMBDA ph :
             [heap |-> ph.heap, time |-> RAdd(t, dt), raised |-> "none",
              exact |-> ph.exact, updated |-> ph.updated, bounded |-> ph.bounded])

\* Simulation.step as a function of the state: the heap and clock it leaves,
\* the exception it raises, and the heap after each phase.
StepCall(h, t, seq, dt, g, b) ==
    IF RLe(dt, Zero)
    THEN [heap |-> h, time |-> t, raised |-> "ValueError", exact |-> TRUE]
    ELSE Let(StepPhases(h, seq, dt, g, b), LAMBDA ph :
             [heap |-> ph.heap, time |-> RAdd(t, dt), raised |-> "none",
              exact |-> ph.exact, updated |-> ph.updated, bounded |-> ph.bounded])

Step(dt) ==
    \E r \in {StepCall(heap, time, particles, dt, gravity, bounds)} :
        /\ r.exact
        /\ r.raised = "none" => fuel > 0
        /\ fuel' = IF r.raised = "none" THEN fuel - 1 ELSE fuel
        /\ heap' = r.heap
        /\ time' = r.time
        /\ last' = IF r.raised = "none"
                   THEN [op |-> "step", args |-> dt, raised |-> "none", result |-> None,
                         updated |-> r.updated, bounded |-> r.bounded]
                   ELSE Raised("step", dt, r.raised)
        /\ UNCHANGED <<particles, gravity, bounds>>

\* Particle.collides_with, called by the host on two of its particles.
CollidesWithCall(p, q) ==
    /\ last' = Returned("collides_with", <<p, q>>, CollidesWith(heap[p], heap[q]))
    /\ UNCHANGED <<particles, time, gravity, bounds, heap, fuel>>

\* Simulation.total_kinetic_energy
TotalKineticEnergyCall ==
    /\ last' = Returned("total_kinetic_energy", None, TotalKineticEnergy)
    /\ UNCHANGED <<particles, time, gravity, bounds, heap, fuel>>

\* Simulation.total_momentum
TotalMomentumCall ==
    /\ last' = Returned("total_momentum", None,
                        IF particles = <<>> THEN VZero ELSE TotalMomentum)
    /\ UNCHANGED <<particles, time, gravity, bounds, heap, fuel>>

\* A run that records each position after the step instead of before it.
RECURSIVE RunLoopRecordsAfter(_, _, _, _, _, _, _)
RunLoopRecordsAfter(st, seq, k, num_steps, dt, g, b) ==
    IF k > num_steps \/ ~st.exact THEN st
    ELSE
    Let(StepCall(st.heap, st.time, seq, dt, g, b), LAMBDA r :
        IF r.raised # "none"
        THEN [st EXCEPT !.raised = r.raised]
        ELSE RunLoopRecordsAfter(
                 [heap |-> r.heap, time |-> r.time,
                  histories |-> [i \in 1..Len(seq) |->
                                    Append(st.histories[i], r.heap[seq[i]].position)],
                  steps |-> st.steps + 1, raised |-> "none", exact |-> r.exact],
                 seq, k + 1, num_steps, dt, g, b))

\* The loop of Simulation.run.  st.histories holds one history per entry of
\* the list, st.steps counts the calls of step that returned; the loop ends
\* when step raises.
RECURSIVE RunLoop(_, _, _, _, _, _, _)
RunLoop(st, seq, k, num_steps, dt, g, b) ==
    IF k > num_steps \/ ~st.exact THEN st
    ELSE
    Let([i \in 1..Len(seq) |-> Append(st.histories[i], st.heap[seq[i]].position)],
        LAMBDA recorded :
    Let(StepCall(st.heap, st.time, seq, dt, g, b), LAMBDA r :
        IF r.raised # "none"
        THEN [st EXCEPT !.histories = recorded, !.raised = r.raised]
        ELSE RunLoop([heap |-> r.heap, time |-> r.time, histories |-> recorded,
                      steps |-> st.steps + 1, raised |-> "none", exact |-> r.exact],
                     seq, k + 1, num_steps, dt, g, b)))

\* Simulation.run
Run(duration, dt) ==
    IF IsZero(dt)
    THEN /\ last' = Raised("run", <<duration, dt>>, "ZeroDivisionError")
         /\ UNCHANGED <<particles, time, gravity, bounds, heap, fuel>>
    ELSE \E r \in {RunLoop([heap |-> heap, time |-> time,
                            histories |-> [i \in 1..Len(particles) |-> <<>>],
                            steps |-> 0, raised |-> "none", exact |-> TRUE],
                           particles, 1, Trunc(RDiv(duration, dt)), dt, gravity, bounds)} :
             /\ r.exact
             /\ r.steps <= fuel
             /\ fuel' = fuel - r.steps
             /\ heap' = r.heap
             /\ time' = r.time
             /\ last' = IF r.raised = "none"
                        THEN [op |-> "run", args |-> <<duration, dt>>, raised |-> "none",
                              result |-> r.histories, steps |-> r.steps]
                        ELSE [op |-> "run", args |-> <<duration, dt>>, raised |-> r.raised,
                              steps |-> r.steps]
             /\ UNCHANGED <<particles, gravity, bounds>>

Next ==
    \/ \E p \in Ids : AddParticle(p)
    \/ \E p \in Ids : RemoveParticle(p)
    \/ Clear
    \/ \E dt \in ApiDtValues : Step(dt)
    \/ \E a \in ApiRunArgs : Run(a[1], a[2])
    \/ TotalKineticEnergyCall
    \/ TotalMomentumCall

Spec == Init /\ [][Next]_vars

PhysicsNext ==
    \/ \E dt \in DtValues : Step(dt)
    \/ \E a \in RunArgs : Run(a[1], a[2])
    \/ \E p \in Ids, q \in Ids : CollidesWithCall(p, q)

Physics == PhysicsInit /\ [][PhysicsNext]_vars

\* Three discs in a row, each overlapping the next, in free space and on the
\* floor of a box; the centres stay on one line, so every centre distance is
\* a rational.
CrowdFirst ==
    { Particle(V(1, 1), v, m, One) :
        v \in {V(0, 0), V(1, 0), V(-1, 0)}, m \in {One, RInt(3)} }
CrowdSecond ==
    { Particle(<<<<5, 2>>, One>>, v, One, One) : v \in {V(0, 0), V(-1, 0)} }
CrowdThird ==
    { Particle(V(4, 1), v, One, One) : v \in {V(0, 0), V(-1, 0), V(1, 0)} }
CrowdWorlds ==
    { [gravity |-> VZero, bounds |-> bd, heap |-> <<a, b, c>>, list |-> seq] :
        bd \in {None, V(5, 4)}, a \in CrowdFirst, b \in CrowdSecond, c \in CrowdThird,
        seq \in {<<1, 2, 3>>, <<3, 2, 1>>, <<2, 3, 1>>} }

\* A simulation after three particles have been added.
CrowdInit == \E w \in CrowdWorlds : Start(w, CrowdSteps)

CrowdNext == \E dt \in DtValues : Step(dt)

Crowd == CrowdInit /\ [][CrowdNext]_vars

(***************************************************************************)
(* Properties.  Every call overwrites last, so last' names the call a step *)
(* of the behaviour made.                                                  *)
(***************************************************************************)
StepReturned == last.op = "step" /\ last.raised = "none"

\* C1: Step(dt) with dt <= 0 raises ValueError and changes nothing: the clock,
\* the list and every particle's position and velocity stay as they were.
C1_StepRejectsNonPositiveDt ==
    [][(last'.op = "step" /\ RLe(last'.args, Zero))
        => /\ last'.raised = "ValueError"
           /\ time' = time
           /\ particles' = particles
           /\ heap' = heap
           /\ gravity' = gravity
           /\ bounds' = bounds]_vars

\* A rejected Step on a simulation that holds particles and has run.
C1_Witness ==
    /\ last.op = "step"
    /\ RLe(last.args, Zero)
    /\ last.raised = "ValueError"
    /\ particles # <<>>
    /\ ~IsZero(time)

\* C2: the clock starts at 0, is never negative, grows by exactly dt on a Step
\* that returns (by steps * dt on a Run), is left alone by a Step that raises
\* and by AddParticle and RemoveParticle, and decreases only through Clear,
\* which sets it to 0.
C2_Clock ==
    /\ IsZero(time)
    /\ [](RLe(Zero, time))
    /\ [][/\ (last'.op = "step" /\ last'.raised = "none")
                => time' = RAdd(time, last'.args)
          /\ (last'.op = "step" /\ last'.raised # "none") => time' = time
          /\ last'.op = "run"
                => (IF IsZero(last'.args[2]) THEN time' = time
                    ELSE time' = RAdd(time, RMul(RInt(last'.steps), last'.args[2])))
          /\ last'.op \in {"add_particle", "remove_particle"} => time' = time
          /\ last'.op = "clear" => IsZero(time')
          /\ RLt(time', time) => last'.op = "clear"]_vars

\* The clock taken back to 0 by Clear after a Step had advanced it.
C2_Witness == last.op = "clear" /\ fuel < ApiSteps /\ IsZero(time)

\* What the boundary pass of the last Step did to particle p on one axis
\* (k = 1 for x, 2 for y; dim is the width or the height): u is p after the
\* updates, q is p after the boundary pass.
LowWall(u, k) == RLt(RSub(u.position[k], u.radius), Zero)
HighWall(u, k, dim) == RGt(RAdd(u.position[k], u.radius), dim)
Fits(u, dim) == RLe(RMul(Two, u.radius), dim)

\* C3 as claimed: a particle whose updated position penetrates a wall is put
\* at exactly radius (dimension - radius) on that axis with a velocity
\* component that is positive at the low wall and negative at the high wall.
C3_AsClaimed ==
    [][(last'.op = "step" /\ last'.raised = "none" /\ bounds # None)
        => \A i \in 1..Len(particles) : \A k \in {1, 2} :
              LET u == last'.updated[particles[i]]
                  q == last'.bounded[particles[i]]
              IN  /\ LowWall(u, k)
                        => /\ q.position[k] = u.radius
                           /\ RGt(q.velocity[k], Zero)
                  /\ HighWall(u, k, bounds[k])
                        => /\ q.position[k] = RSub(bounds[k], u.radius)
                           /\ RLt(q.velocity[k], Zero)]_vars

\* C3, amended: for a particle no wider than the box on that axis
\* (2 * radius <= dimension), a penetrated low wall leaves the position at
\* exactly radius and the velocity component at its absolute value, a
\* penetrated high wall leaves the position at exactly dimension - radius and
\* the component at minus its absolute value: the component points into the
\* box unless it was 0, and then it stays 0.  Both axes are corrected in the
\* same pass.
C3_BoundaryReflection ==
    [][(last'.op = "step" /\ last'.raised = "none" /\ bounds # None)
        => \A i \in 1..Len(particles) : \A k \in {1, 2} :
              LET u == last'.updated[particles[i]]
                  q == last'.bounded[particles[i]]
              IN  Fits(u, bounds[k]) =>
                  /\ LowWall(u, k)
                        => /\ q.position[k] = u.radius
                           /\ q.velocity[k] = RAbs(u.velocity[k])
                  /\ HighWall(u, k, bounds[k])
                        => /\ q.position[k] = RSub(bounds[k], u.radius)
                           /\ q.velocity[k] = RNeg(RAbs(u.velocity[k]))]_vars

\* A particle driven into a corner: both axes penetrated and corrected by one
\* boundary pass, both components turned inward.
C3_Witness ==
    /\ StepReturned
    /\ bounds # None
    /\ \E p \in Ids :
          /\ LowWall(last.updated[p], 1)
          /\ LowWall(last.updated[p], 2)
          /\ RLt(last.updated[p].velocity[1], Zero)
          /\ RLt(last.updated[p].velocity[2], Zero)
          /\ last.bounded[p].position = <<last.updated[p].radius, last.updated[p].radius>>
          /\ RGt(last.bounded[p].velocity[1], Zero)
          /\ RGt(last.bounded[p].velocity[2], Zero)

\* A Step of two entries in free space without acceleration.
FreePairStep ==
    /\ last'.op = "step"
    /\ last'.raised = "none"
    /\ Len(particles) = 2
    /\ bounds = None
    /\ gravity = VZero

\* The collision pass of the last Step changed a velocity.
Collided == \E p \in Ids : heap[p].velocity # last.bounded[p].velocity

\* C4: a Step of a world of two particles, without bounds and acceleration,
\* leaves the total momentum as it was, whether or not the pair collides.
C4_MomentumConserved ==
    [][FreePairStep => SumMomentum(heap', particles', 1, VZero) = SumMomentum(heap, particles, 1, VZero)]_vars

\* A pair of unequal masses after the Step in which it collided.
C4_Witness ==
    /\ StepReturned
    /\ Len(particles) = 2
    /\ bounds = None
    /\ gravity = VZero
    /\ heap[1].mass # heap[2].mass
    /\ Collided

\* C5: a Step of a world of two particles, without bounds and acceleration,
\* leaves the total kinetic energy as it was.
C5_EnergyConserved ==
    [][FreePairStep => SumEnergy(heap', particles', 1, Zero) = SumEnergy(heap, particles, 1, Zero)]_vars

\* A pair after an oblique collision: the centres differed on both axes and
\* the collision changed both components of a velocity.
C5_Witness ==
    /\ StepReturned
    /\ Len(particles) = 2
    /\ bounds = None
    /\ gravity = VZero
    /\ last.bounded[1].position[1] # last.bounded[2].position[1]
    /\ last.bounded[1].position[2] # last.bounded[2].position[2]
    /\ \E p \in Ids : /\ heap[p].velocity[1] # last.bounded[p].velocity[1]
                      /\ heap[p].velocity[2] # last.bounded[p].velocity[2]

\* The heap k calls of Step(dt) leave, from heap h.
RECURSIVE AfterSteps(_, _, _, _, _, _)
AfterSteps(h, seq, k, dt, g, b) ==
    IF k = 0 THEN h
    ELSE Let(StepCall(h, Zero, seq, dt, g, b).heap, LAMBDA h1 :
             AfterSteps(h1, seq, k - 1, dt, g, b))

\* The call of Run that last' records made n Steps and returned one history
\* per entry of the list, the k-th position of each being the entry's
\* position before the k-th Step.
RanSteps(n) ==
    /\ last'.raised = "none"
    /\ last'.steps = n
    /\ heap' = AfterSteps(heap, particles, n, last'.args[2], gravity, bounds)
    /\ Len(last'.result) = Len(particles)
    /\ \A i \in 1..Len(particles) :
          /\ Len(last'.result[i]) = n
          /\ \A k \in 1..n :
                last'.result[i][k] =
                    AfterSteps(heap, particles, k - 1, last'.args[2],
                               gravity, bounds)[particles[i]].position

\* C6 as claimed: Run(duration, dt) makes exactly floor(duration / dt) Steps
\* and returns histories of that length (stated for dt # 0, where the
\* quotient exists).
C6_AsClaimed ==
    [][(last'.op = "run" /\ ~IsZero(last'.args[2]))
        => RanSteps(Floor(RDiv(last'.args[1], last'.args[2])))]_vars

\* C6, amended: for dt > 0, Run(duration, dt) makes exactly
\* max(0, floor(duration / dt)) Steps and returns one history per entry of
\* the list, in the order of the list, each of that many positions, the k-th
\* being the position before the k-th Step; the position after the last Step
\* is not recorded.
C6_RunHistories ==
    [][(last'.op = "run" /\ RGt(last'.args[2], Zero))
        => LET n == Floor(RDiv(last'.args[1], last'.args[2]))
           IN  RanSteps(IF n < 0 THEN 0 ELSE n)]_vars

\* A Run of two Steps over two particles, one of which moved at each Step.
C6_Witness ==
    /\ last.op = "run"
    /\ last.raised = "none"
    /\ last.steps = 2
    /\ Len(particles) = 2
    /\ Len(last.result[1]) = 2
    /\ last.result[1][1] # last.result[1][2]
    /\ heap[particles[1]].position # last.result[1][2]

\* The first index of p in seq (p occurs in seq).
RECURSIVE FirstIndex(_, _, _)
FirstIndex(seq, p, i) == IF seq[i] = p THEN i ELSE FirstIndex(seq, p, i + 1)

\* C7: RemoveParticle(p) removes exactly the first entry that is the particle
\* p, keeps the other entries in their order and returns true; when p is not
\* in the list it returns false, raises nothing and leaves the list as it was.
C7_RemoveFirstByIdentity ==
    [][last'.op = "remove_particle"
        => LET p == last'.args
           IN  /\ last'.raised = "none"
               /\ IF \E i \in 1..Len(particles) : particles[i] = p
                  THEN LET i == FirstIndex(particles, p, 1)
                       IN  /\ last'.result = TRUE
                           /\ particles' = SubSeq(particles, 1, i - 1)
                                           \o SubSeq(particles, i + 1, Len(particles))
                  ELSE /\ last'.result = FALSE
                       /\ particles' = particles]_vars

\* One of two entries of the same particle removed from a list of three: the
\* call returned true and the particle is still in the list, beside a
\* different particle of equal value.
C7_Witness ==
    /\ last.op = "remove_particle"
    /\ last.result = TRUE
    /\ Len(particles) = 2
    /\ particles[1] # particles[2]
    /\ Contains(particles, last.args)
    /\ heap[1] = heap[2]

\* C8: a call either returns or raises ValueError (InvalidParameter); no
\* other error is raised.
C8_OnlyInvalidParameter == last.raised \in {"none", "ValueError"}

\* C9: a Step of a single particle in a world without bounds leaves the
\* velocity at v + a * dt and the position at x + (v + a * dt) * dt.
C9_SemiImplicitEuler ==
    [][(last'.op = "step" /\ last'.raised = "none" /\ Len(particles) = 1 /\ bounds = None)
        => LET p == particles[1]
               dt == last'.args
               v == VAdd(heap[p].velocity, VScale(dt, gravity))
           IN  /\ heap'[p].velocity = v
               /\ heap'[p].position = VAdd(heap[p].position, VScale(dt, v))]_vars

\* Acceleration (0, -10), position (0, 100), velocity (0, 0), dt = 1: the
\* velocity is (0, -10) and the position (0, 90).
C9_Witness ==
    /\ StepReturned
    /\ last.args = One
    /\ particles = <<1>>
    /\ bounds = None
    /\ gravity = V(0, -10)
    /\ time = One
    /\ heap[1].velocity = V(0, -10)
    /\ heap[1].position = V(0, 90)

\* The squares of the centre distance and of the sum of the radii.
GapSq(p, q) ==
    RAdd(RMul(RSub(p.position[1], q.position[1]), RSub(p.position[1], q.position[1])),
         RMul(RSub(p.position[2], q.position[2]), RSub(p.position[2], q.position[2])))
ReachSq(p, q) == RMul(RAdd(p.radius, q.radius), RAdd(p.radius, q.radius))

\* C10: CollidesWith is true exactly when the centre distance is less than
\* r1 + r2, so it is false for a pair at distance r1 + r2, and the collision
\* pass of a Step leaves a pair alone that touches after the boundary pass.
C10_StrictOverlap ==
    /\ [](last.op = "collides_with"
            => last.result = RLt(GapSq(heap[last.args[1]], heap[last.args[2]]),
                                 ReachSq(heap[last.args[1]], heap[last.args[2]])))
    /\ [][(last'.op = "step" /\ last'.raised = "none" /\ Len(particles) = 2
           /\ GapSq(last'.bounded[particles[1]], last'.bounded[particles[2]])
                = ReachSq(heap[particles[1]], heap[particles[2]]))
            => heap' = last'.bounded]_vars

\* CollidesWith answered false for two discs that a Step has brought to the
\* distance r1 + r2 exactly.
C10_Witness ==
    /\ last.op = "collides_with"
    /\ last.result = FALSE
    /\ fuel < MaxSteps
    /\ heap[1].position # heap[2].position
    /\ GapSq(heap[last.args[1]], heap[last.args[2]])
         = ReachSq(heap[last.args[1]], heap[last.args[2]])

\* Update applied n times to p, and the boundary pass applied n times to p.
RECURSIVE UpdateTimes(_, _, _, _)
UpdateTimes(p, n, dt, g) ==
    IF n = 0 THEN p ELSE UpdateTimes(Update(p, dt, g), n - 1, dt, g)
RECURSIVE ReflectTimes(_, _, _)
ReflectTimes(p, n, b) ==
    IF n = 0 \/ b = None THEN p
    ELSE ReflectTimes(ReflectAtBounds(p, b[1], b[2]), n - 1, b)

\* The number of entries of seq that are the particle p.
Count(seq, p) == Cardinality({i \in 1..Len(seq) : seq[i] = p})

\* The pairs <<i, j>> with 1 <= i < j <= n, and a set of pairs as the
\* sequence that ascends in i and, for equal i, in j.
PairSet(n) == {pr \in (1..n) \X (1..n) : pr[1] < pr[2]}
Before(p, q) == p[1] < q[1] \/ (p[1] = q[1] /\ p[2] <= q[2])
RECURSIVE Ascending(_)
Ascending(S) ==
    IF S = {} THEN <<>>
    ELSE Let(CHOOSE p \in S : \A q \in S : Before(p, q), LAMBDA first :
             <<first>> \o Ascending(S \ {first}))

\* The pairs of the sequence pairs examined one after the other, from the
\* k-th on, each on the heap the examinations before it left.
RECURSIVE ExamineInTurn(_, _, _, _)
ExamineInTurn(st, seq, pairs, k) ==
    IF k > Len(pairs) THEN st
    ELSE Let(ExaminePair(st, seq[pairs[k][1]], seq[pairs[k][2]]), LAMBDA st1 :
             ExamineInTurn(st1, seq, pairs, k + 1))

\* C11: in a Step that returns, every particle is integrated before any
\* boundary reflection (the heap after the first phase is the old heap with
\* every entry updated), every reflection is made before any pair is examined
\* (the heap after the second phase is the first with every entry reflected),
\* the pairs (i, j), i < j, are then examined once each in ascending order,
\* each on the heap its predecessors left, and the clock has advanced by dt.
C11_PhaseOrder ==
    [][(last'.op = "step" /\ last'.raised = "none")
        => /\ \A p \in DOMAIN heap :
                 /\ last'.updated[p]
                      = UpdateTimes(heap[p], Count(particles, p), last'.args, gravity)
                 /\ last'.bounded[p]
                      = ReflectTimes(last'.updated[p], Count(particles, p), bounds)
           /\ heap' = ExamineInTurn([heap |-> last'.bounded, exact |-> TRUE], particles,
                                    Ascending(PairSet(Len(particles))), 1).heap
           /\ time' = RAdd(time, last'.args)]_vars

\* Three particles after a Step in which the first pair was resolved and a
\* later resolution pushed it into overlap again: the pair was not examined a
\* second time.
C11_Witness ==
    /\ StepReturned
    /\ Len(particles) = 3
    /\ LET a == last.bounded[particles[1]]
           b == last.bounded[particles[2]]
       IN  /\ CollidesWith(a, b)
           /\ a.position # b.position
           /\ RLe(Dot(VSub(a.velocity, b.velocity), VSub(a.position, b.position)), Zero)
    /\ CollidesWith(heap[particles[1]], heap[particles[2]])

\* The pair a Step of two entries examines, as the boundary pass left it.
PairFirst == last'.bounded[particles[1]]
PairSecond == last'.bounded[particles[2]]
TwoEntryStep == last'.op = "step" /\ RGt(last'.args, Zero) /\ Len(particles) = 2

\* The relative velocity along the line of the centres, times the centre
\* distance: its sign is the sign of vn.
Approach(p, q) == Dot(VSub(p.velocity, q.velocity), VSub(p.position, q.position))

\* C12: the resolution of a pair changes no position and no velocity and
\* raises nothing when the pair does not collide, when the centres coincide,
\* or when the relative velocity along the normal is positive; an overlapping
\* pair that is separating keeps its overlap.
C12_ResolutionSkipped ==
    [][(/\ TwoEntryStep
        /\ \/ ~CollidesWith(PairFirst, PairSecond)
           \/ PairFirst.position = PairSecond.position
           \/ RGt(Approach(PairFirst, PairSecond), Zero))
        => /\ last'.raised = "none"
           /\ heap' = last'.bounded]_vars

\* Two different particles that overlap after a Step which found them
\* overlapping and separating.
C12_Witness ==
    /\ StepReturned
    /\ Len(particles) = 2
    /\ particles[1] # particles[2]
    /\ CollidesWith(last.bounded[1], last.bounded[2])
    /\ last.bounded[1].position # last.bounded[2].position
    /\ RGt(Approach(last.bounded[particles[1]], last.bounded[particles[2]]), Zero)
    /\ heap = last.bounded
    /\ CollidesWith(heap[1], heap[2])

\* The unit normal of a pair with distinct centres and the displacement
\* overlap / 2 + 0.01 along it.
UnitNormal(p, q) ==
    VScale(RDiv(One, RSqrt(GapSq(p, q))), VSub(p.position, q.position))
Push(p, q) ==
    VScale(RAdd(RMul(RSub(RAdd(p.radius, q.radius), RSqrt(GapSq(p, q))), Half), Slop),
           UnitNormal(p, q))

\* C13: when a colliding pair with distinct centres and vn <= 0 is resolved,
\* the first particle is displaced by overlap / 2 + 0.01 along the unit
\* normal and the second by as much against it, so that the centre distance
\* is r1 + r2 + 0.02 and CollidesWith is false for the pair.
C13_PushedApart ==
    [][(/\ TwoEntryStep
        /\ CollidesWith(PairFirst, PairSecond)
        /\ PairFirst.position # PairSecond.position
        /\ RLe(Approach(PairFirst, PairSecond), Zero))
        => /\ heap'[particles[1]].position
                = VAdd(PairFirst.position, Push(PairFirst, PairSecond))
           /\ heap'[particles[2]].position
                = VSub(PairSecond.position, Push(PairFirst, PairSecond))
           /\ GapSq(heap'[particles[1]], heap'[particles[2]])
                = RMul(RAdd(RAdd(PairFirst.radius, PairSecond.radius), RMul(Two, Slop)),
                       RAdd(RAdd(PairFirst.radius, PairSecond.radius), RMul(Two, Slop)))
           /\ ~CollidesWith(heap'[particles[1]], heap'[particles[2]])]_vars

\* A pair resolved with vn = 0: both discs at rest and overlapping, pushed
\* apart without a change of velocity.
C13_Witness ==
    /\ StepReturned
    /\ Len(particles) = 2
    /\ CollidesWith(last.bounded[1], last.bounded[2])
    /\ last.bounded[1].position # last.bounded[2].position
    /\ IsZero(Approach(last.bounded[1], last.bounded[2]))
    /\ heap[1].velocity = last.bounded[1].velocity
    /\ heap[1].position # last.bounded[1].position
    /\ ~CollidesWith(heap[1], heap[2])

\* A particle that lies inside the rectangle b = (width, height), and a world
\* all of whose particles are no wider and no higher than its rectangle.
Inside(u, b) ==
    \A k \in {1, 2} : /\ RLe(u.radius, u.position[k])
                      /\ RLe(u.position[k], RSub(b[k], u.radius))
AllFit == \A i \in 1..Len(particles) : \A k \in {1, 2} : Fits(heap[particles[i]], bounds[k])
BoundedStep == StepReturned /\ bounds # None /\ AllFit

\* C14 as claimed: in a bounded world whose particles all fit, every particle
\* lies inside the rectangle after every successful Step.
C14_AsClaimed ==
    BoundedStep => \A i \in 1..Len(particles) : Inside(heap[particles[i]], bounds)

\* C14, amended: in a bounded world whose particles all fit, every particle
\* lies inside the rectangle after the boundary pass of every successful
\* Step, and at the end of the Step every particle that the collision pass
\* did not displace still does.
C14_InsideAfterBoundaryPass ==
    BoundedStep
        => \A i \in 1..Len(particles) :
              /\ Inside(last.bounded[particles[i]], bounds)
              /\ heap[particles[i]].position = last.bounded[particles[i]].position
                    => Inside(heap[particles[i]], bounds)

\* A Step whose boundary pass put a particle back inside the rectangle and
\* whose collision pass then pushed it out, while a particle the collision
\* pass did not displace ended the Step inside.
C14_Witness ==
    /\ BoundedStep
    /\ \E i, j \in 1..Len(particles) :
          /\ heap[particles[i]].position = last.bounded[particles[i]].position
          /\ Inside(heap[particles[i]], bounds)
          /\ ~Inside(last.updated[particles[j]], bounds)
          /\ Inside(last.bounded[particles[j]], bounds)
          /\ ~Inside(heap[particles[j]], bounds)
====
